---- MODULE Spec2Model ----
(***************************************************************************)
(* Model of the LueLue backend:                                            *)
(*   - Game::new / Game::from_ref / Game::prep_for_new_round               *)
(*   - select_new_card_to_be_played (ChaCha8 generator, default seed)      *)
(*   - Claim::new                                                          *)
(*   - Chat::new / Chat::reset / Chat::add_chat_message                    *)
(*   - GameRepository::update_game and its roster synchronisation, one     *)
(*     step for each database call it awaits, the UPDATE query builder     *)
(*     and the PlayerRepository calls it makes                             *)
(*   - add_game, delete_game, add_player, update_player, delete_player,    *)
(*     create_card, update_card, delete_card, delete_claim                 *)
(*   - the get-by-id lookups of the four repositories                      *)
(*   - the update-query builders of the player and card repositories       *)
(*   - the PUT /game/update handler and the SSE heartbeat stream           *)
(* The specifications share the variables: Spec (one game and the calls    *)
(* made on it), ClaimSpec (Claim::new over bounded inputs), ChatSpec (one  *)
(* chat and the calls made on it), RepoSpec (the database under the        *)
(* calls that write the games and players tables, with update_game calls   *)
(* running between each other's database calls, and the update handler),   *)
(* LookupSpec (lookups between the calls that write), CloneSpec (from_ref  *)
(* over bounded games), SseSpec (the heartbeat loop, weakly fair) and      *)
(* BuilderSpec (the update-query builders of the game, player and card     *)
(* repositories over every combination of optional fields).                *)
(***************************************************************************)
EXTENDS Integers, Sequences, FiniteSets, TLC

VARIABLES
    game,      \* the Game object (types/game.rs, struct Game)
    rounds,    \* history: one entry per successful prep_for_new_round
    chat,      \* the Chat object (types/chat.rs, struct Chat)
    accepted,  \* history: number of messages add_chat_message accepted
    db,        \* the D1 database: the games, players, cards and claims tables
    sse,       \* the stream sse_handler returns
    tasks,     \* the update_game calls that wait for the database
    call,      \* the last call made: operation, receiver before it, arguments
    ret        \* what the last call returned

vars == <<game, rounds, chat, accepted, db, sse, tasks, call, ret>>

----------------------------------------------------------------------------
(* Bounds of the model *)

\* number of distinct player ids
NumIds == 2
\* longest claims list the environment builds
MaxClaims == 2
\* prep_for_new_round is not called once round_number has reached this
MaxRound == 4
\* longest cards list handed to Claim::new
MaxCardsLen == 5
\* add_chat_message accepts at most this many messages in one behaviour
MaxAccepted == 53
\* number of distinct player ids the repositories see
NumRosterIds == 6
\* number of update_game calls that can wait for the database at a time
MaxCalls == 2
\* longest hand of a player in the games handed to Game::from_ref
MaxHand == 2
\* the stream counts its events up to this number and goes on from there
MaxEvents == 60

PlayerIds == 1..NumIds
\* String::new(): the id of no player
NoPlayer == 0

----------------------------------------------------------------------------
(* enums/card_types.rs *)

CardTypes == {"King", "Queen", "Jack", "Ace", "Joker"}

number_of_values == 5

CardType_from_usize(num) ==
    LET used_num == num % number_of_values
    IN  CASE used_num = 0 -> "King"
          [] used_num = 1 -> "Queen"
          [] used_num = 2 -> "Jack"
          [] used_num = 3 -> "Ace"
          [] used_num = 4 -> "Joker"
          [] OTHER -> "King"

----------------------------------------------------------------------------
(* rand_chacha's ChaCha8Rng as utils/game_service.rs uses it.  A 32-bit    *)
(* word is a pair <<hi, lo>> of 16-bit halves, so that no intermediate     *)
(* value leaves the 32-bit range.                                          *)

Half == 65536

RECURSIVE Xor16(_, _)
Xor16(a, b) ==
    IF a = 0 THEN b
    ELSE IF b = 0 THEN a
    ELSE (((a % 2) + (b % 2)) % 2) + 2 * Xor16(a \div 2, b \div 2)

WXor(x, y) == <<Xor16(x[1], y[1]), Xor16(x[2], y[2])>>

\* wrapping_add on u32
WAdd(x, y) ==
    LET lo == x[2] + y[2]
    IN  <<(x[1] + y[1] + (lo \div Half)) % Half, lo % Half>>

\* rotate_left(n), n in 1..16
WRotl(x, n) ==
    IF n = 16 THEN <<x[2], x[1]>>
    ELSE <<((x[1] * 2^n) % Half) + (x[2] \div 2^(16 - n)),
           ((x[2] * 2^n) % Half) + (x[1] \div 2^(16 - n))>>

\* Intermediate values are bound through singleton sets (v \in {e}), so
\* that each is computed once however often it is used.

\* half of a quarter round on t = <<a, b, c, d>>:
\* a += b; d ^= a; d <<<= r1; c += d; b ^= c; b <<<= r2
HalfStep(t, r1, r2) ==
    CHOOSE r \in
        {CHOOSE q \in
            {CHOOSE p \in
                {<<a, WRotl(WXor(t[2], c), r2), c, d>> : c \in {WAdd(t[3], d)}}
                : TRUE
             : d \in {WRotl(WXor(t[4], a), r1)}}
            : TRUE
         : a \in {WAdd(t[1], t[2])}}
        : TRUE

QuarterRound(s, a, b, c, d) ==
    CHOOSE r \in
        {[s EXCEPT ![a] = q[1], ![b] = q[2], ![c] = q[3], ![d] = q[4]]
         : q \in {HalfStep(h, 8, 7)
                  : h \in {HalfStep(<<s[a], s[b], s[c], s[d]>>, 16, 12)}}}
        : TRUE

\* the four column rounds, then the four diagonal rounds
Schedule ==
    <<<<1, 5, 9, 13>>, <<2, 6, 10, 14>>, <<3, 7, 11, 15>>, <<4, 8, 12, 16>>,
      <<1, 6, 11, 16>>, <<2, 7, 12, 13>>, <<3, 8, 9, 14>>, <<4, 5, 10, 15>>>>

\* the state after the first k quarter rounds
RECURSIVE QuarterRounds(_, _)
QuarterRounds(s, k) ==
    IF k = 0 THEN s
    ELSE LET at == Schedule[((k - 1) % 8) + 1]
         IN  CHOOSE r \in
                 {QuarterRound(v, at[1], at[2], at[3], at[4])
                  : v \in {QuarterRounds(s, k - 1)}}
                 : TRUE

\* Default::default() for the 32-byte seed: eight zero key words
DefaultSeed == [i \in 1..8 |-> <<0, 0>>]

\* "expand 32-byte k", the key, block counter 0, stream 0
ChaChaInput(seed) ==
    <<<<24944, 30821>>, <<13088, 25710>>, <<31074, 11570>>, <<27424, 25972>>>>
    \o seed \o <<<<0, 0>>, <<0, 0>>, <<0, 0>>, <<0, 0>>>>

\* first block of the ChaCha8 key stream: 8 rounds of 4 quarter rounds, then
\* the feed-forward
ChaCha8Block(seed) ==
    CHOOSE r \in
        {[i \in 1..16 |-> WAdd(mixed[i], ChaChaInput(seed)[i])]
         : mixed \in {QuarterRounds(ChaChaInput(seed), 32)}}
        : TRUE

\* (word % m) for a 32-bit word and a small m
WMod(x, m) == ((x[1] % m) * (Half % m) + (x[2] % m)) % m

\* next_u32() number k (1 = first) of a generator freshly built from seed
next_u32(seed, k) == ChaCha8Block(seed)[k]

----------------------------------------------------------------------------
(* utils/game_service.rs *)

\* a generator that is seeded once and keeps running: call number n takes
\* output number n
select_card_from_running_generator ==
    CardType_from_usize(WMod(next_u32(DefaultSeed, game.round_number),
                             number_of_values))

select_new_card_to_be_played ==
    LET num == WMod(next_u32(DefaultSeed, 1), number_of_values)
    IN  CardType_from_usize(num)

----------------------------------------------------------------------------
(* types/card.rs, types/player.rs, types/claim.rs, types/chat.rs *)

Card(id, card_type) == [id |-> id, card_type |-> card_type]

\* impl Clone for Card
Card_clone(c) ==
    [id |-> c.id,
     card_type |-> CASE c.card_type = "Ace"   -> "Ace"
                     [] c.card_type = "King"  -> "King"
                     [] c.card_type = "Joker" -> "Jack"
                     [] c.card_type = "Queen" -> "Queen"
                     [] c.card_type = "Jack"  -> "Jack"]

Cards_clone(cs) == [i \in 1..Len(cs) |-> Card_clone(cs[i])]

\* Player::new; the name and the time stamps play no part in the model
Player_new(id) == [id |-> id, score |-> 0, assigned_cards |-> <<>>]

\* #[derive(Clone)] on Player
Player_clone(p) == [p EXCEPT !.assigned_cards = Cards_clone(p.assigned_cards)]

\* #[derive(Clone)] on Claim
Claim_clone(c) == [c EXCEPT !.cards = Cards_clone(c.cards)]

MAX_CARDS_PER_CLAIM == 4

Claim_new(created_by, number_of_cards, cards) ==
    IF number_of_cards > MAX_CARDS_PER_CLAIM
    THEN [tag |-> "Err", error |-> "BadClientRequest",
          bad_data |-> [created_by |-> created_by,
                        number_of_cards |-> number_of_cards,
                        cards |-> Cards_clone(cards)]]
    ELSE [tag |-> "Ok",
          value |-> [created_by |-> created_by,
                     number_of_cards |-> number_of_cards,
                     cards |-> cards]]

MAX_CHAT_MESSAGE_LENGTH == 50

\* ChatMessage; the sender and the time stamp play no part in the model
ChatMessage(id, content) == [id |-> id, content |-> content]

Chat_new == [messages |-> <<>>, number_of_messages |-> 0]

reset(c) == [c EXCEPT !.number_of_messages = 0, !.messages = <<>>]

\* remove(0) on a Vec
RemoveFirst(s) == SubSeq(s, 2, Len(s))

\* an eviction test that is off by one: > instead of >=
add_chat_message_off_by_one(c, message) ==
    IF message.content = ""
    THEN [ret |-> [tag |-> "Err", error |-> "InvalidMessageError",
                   origin_message |-> message],
          self |-> c]
    ELSE IF c.number_of_messages > MAX_CHAT_MESSAGE_LENGTH
    THEN [ret |-> [tag |-> "Ok"],
          self |-> [c EXCEPT !.messages = Append(RemoveFirst(c.messages), message)]]
    ELSE [ret |-> [tag |-> "Ok"],
          self |-> [c EXCEPT !.number_of_messages = c.number_of_messages + 1,
                             !.messages = Append(c.messages, message)]]

\* an eviction that drops the newest stored message instead of the oldest
add_chat_message_evicting_newest(c, message) ==
    IF message.content = ""
    THEN [ret |-> [tag |-> "Err", error |-> "InvalidMessageError",
                   origin_message |-> message],
          self |-> c]
    ELSE IF c.number_of_messages >= MAX_CHAT_MESSAGE_LENGTH
    THEN [ret |-> [tag |-> "Ok"],
          self |-> [c EXCEPT !.messages =
                        Append(SubSeq(c.messages, 1, Len(c.messages) - 1), message)]]
    ELSE [ret |-> [tag |-> "Ok"],
          self |-> [c EXCEPT !.number_of_messages = c.number_of_messages + 1,
                             !.messages = Append(c.messages, message)]]

\* a content test that comes after the eviction: a full chat loses its
\* oldest message before the empty message is turned away
add_chat_message_checking_late(c, message) ==
    IF c.number_of_messages >= MAX_CHAT_MESSAGE_LENGTH
    THEN IF message.content = ""
         THEN [ret |-> [tag |-> "Err", error |-> "InvalidMessageError",
                        origin_message |-> message],
               self |-> [c EXCEPT !.messages = RemoveFirst(c.messages)]]
         ELSE [ret |-> [tag |-> "Ok"],
               self |-> [c EXCEPT !.messages =
                             Append(RemoveFirst(c.messages), message)]]
    ELSE IF message.content = ""
    THEN [ret |-> [tag |-> "Err", error |-> "InvalidMessageError",
                   origin_message |-> message],
          self |-> c]
    ELSE [ret |-> [tag |-> "Ok"],
          self |-> [c EXCEPT !.number_of_messages = c.number_of_messages + 1,
                             !.messages = Append(c.messages, message)]]

\* Chat::add_chat_message: the value returned and the chat afterwards
add_chat_message(c, message) ==
    IF message.content = ""
    THEN [ret |-> [tag |-> "Err", error |-> "InvalidMessageError",
                   origin_message |-> message],
          self |-> c]
    ELSE IF c.number_of_messages >= MAX_CHAT_MESSAGE_LENGTH
    THEN [ret |-> [tag |-> "Ok"],
          self |-> [c EXCEPT !.messages = Append(RemoveFirst(c.messages), message)]]
    ELSE [ret |-> [tag |-> "Ok"],
          self |-> [c EXCEPT !.number_of_messages = c.number_of_messages + 1,
                             !.messages = Append(c.messages, message)]]

----------------------------------------------------------------------------
(* types/game.rs *)

\* Game::new; the uuid and the creation time are fixed tokens
Game_new ==
    [id |-> "game",
     players |-> <<>>,
     which_player_turn |-> NoPlayer,
     state |-> "Starting",
     started_at |-> "now",
     card_to_play |-> "King",
     chat |-> Chat_new,
     claims |-> <<>>,
     round_number |-> 1]

\* Game::from_ref: every field cloned with the Clone of its type
Game_from_ref(g) ==
    [id |-> g.id,
     players |-> [i \in 1..Len(g.players) |-> Player_clone(g.players[i])],
     which_player_turn |-> g.which_player_turn,
     state |-> g.state,
     started_at |-> g.started_at,
     card_to_play |-> g.card_to_play,
     chat |-> g.chat,
     claims |-> [i \in 1..Len(g.claims) |-> Claim_clone(g.claims[i])],
     round_number |-> g.round_number]

\* ProcessError::new(message, name_of_function, Some(bad_data))
NoPlayersError(g) ==
    [tag |-> "Err", error |-> "ProcessError",
     name_of_function |-> "ProcessError::new()",
     bad_data |-> Game_from_ref(g)]

\* a round preparation that forgets to count the round
prep_without_increment(g) ==
    IF Len(g.players) = 0
    THEN [ret |-> NoPlayersError(g), self |-> g]
    ELSE [ret |-> [tag |-> "Ok"],
          self |-> [g EXCEPT !.which_player_turn = g.players[1].id,
                             !.card_to_play = select_new_card_to_be_played,
                             !.claims = <<>>]]

\* a round preparation that keeps the claims of the round before
prep_keeping_claims(g) ==
    IF Len(g.players) = 0
    THEN [ret |-> NoPlayersError(g), self |-> g]
    ELSE [ret |-> [tag |-> "Ok"],
          self |-> [g EXCEPT !.which_player_turn = g.players[1].id,
                             !.card_to_play = select_new_card_to_be_played,
                             !.round_number = g.round_number + 1]]

\* a round preparation that starts with the last player of the list
prep_with_last_player(g) ==
    IF Len(g.players) = 0
    THEN [ret |-> NoPlayersError(g), self |-> g]
    ELSE [ret |-> [tag |-> "Ok"],
          self |-> [g EXCEPT !.which_player_turn = g.players[Len(g.players)].id,
                             !.card_to_play = select_new_card_to_be_played,
                             !.claims = <<>>,
                             !.round_number = g.round_number + 1]]

\* a round preparation that passes the turn on by the round number
prep_rotating_turn(g) ==
    IF Len(g.players) = 0
    THEN [ret |-> NoPlayersError(g), self |-> g]
    ELSE [ret |-> [tag |-> "Ok"],
          self |-> [g EXCEPT !.which_player_turn =
                                 g.players[(g.round_number % Len(g.players)) + 1].id,
                             !.card_to_play = select_new_card_to_be_played,
                             !.claims = <<>>,
                             !.round_number = g.round_number + 1]]

\* a round preparation that reports the empty list only after its updates
prep_checking_late(g) ==
    LET updated == [g EXCEPT !.card_to_play = select_new_card_to_be_played,
                             !.claims = <<>>,
                             !.round_number = g.round_number + 1]
    IN  IF Len(g.players) = 0
        THEN [ret |-> NoPlayersError(g), self |-> updated]
        ELSE [ret |-> [tag |-> "Ok"],
              self |-> [updated EXCEPT !.which_player_turn = g.players[1].id]]

\* Game::prep_for_new_round: the value returned and the game afterwards
prep_for_new_round(g) ==
    IF Len(g.players) = 0
    THEN [ret |-> NoPlayersError(g), self |-> g]
    ELSE [ret |-> [tag |-> "Ok"],
          self |-> [g EXCEPT !.which_player_turn = g.players[1].id,
                             !.card_to_play = select_new_card_to_be_played,
                             !.claims = <<>>,
                             !.round_number = g.round_number + 1]]

----------------------------------------------------------------------------
(* enums/game_state.rs, errors/database_query_error.rs and the repositories. *)
(* An Option is a sequence: None is <<>> and Some(v) is <<v>>.  A Result is *)
(* a record with tag "Ok" and a value, or tag "Err" and the status_code of  *)
(* the DatabaseQueryError.                                                  *)

\* types/game.rs: the maximum number of players allowed in a game
MAX_PLAYERS == 5

None == <<>>
Some(v) == <<v>>

GameState_index(state) ==
    CASE state = "InProgress" -> 0
      [] state = "Ended" -> 1
      [] state = "WaitingForPlayers" -> 2
      [] state = "Starting" -> 3

CardType_index(card) ==
    CASE card = "King" -> 0
      [] card = "Queen" -> 1
      [] card = "Jack" -> 2
      [] card = "Ace" -> 3
      [] card = "Joker" -> 4

OK == 200
BAD_REQUEST == 400
NOT_FOUND == 404
INTERNAL_SERVER_ERROR == 500

DatabaseQueryError(status_code) == [tag |-> "Err", status_code |-> status_code]
Ok(value) == [tag |-> "Ok", value |-> value]

\* GameRepository::get_update_query_string_and_bindings: the query text and
\* the values bound to its placeholders, the id last
get_update_query_string_and_bindings(game_data) ==
    LET q0 == "UPDATE games SET "
        q1 == IF game_data.state # None THEN q0 \o "state = ?, " ELSE q0
        b1 == IF game_data.state # None
              THEN <<GameState_index(game_data.state[1])>> ELSE <<>>
        q2 == IF game_data.round_number # None
              THEN q1 \o "round_number = ?, " ELSE q1
        b2 == IF game_data.round_number # None
              THEN Append(b1, game_data.round_number[1]) ELSE b1
        q3 == IF game_data.card_to_play # None
              THEN q2 \o "card_to_play = ?, " ELSE q2
        b3 == IF game_data.card_to_play # None
              THEN Append(b2, CardType_index(game_data.card_to_play[1])) ELSE b2
        q4 == IF game_data.which_player_turn # None
              THEN q3 \o "which_player_turn = ?, " ELSE q3
        b4 == IF game_data.which_player_turn # None
              THEN Append(b3, game_data.which_player_turn[1]) ELSE b3
        truncated == SubSeq(q4, 1, Len(q4) - 2)
    IN  [query |-> truncated \o " WHERE id = ? RETURNING *;",
         bindings |-> Append(b4, game_data.id)]

\* PlayerRepository::get_update_query_string_and_bindings: the query text
\* and the values bound to its placeholders, the id last.  Its third test
\* reads player.last_time_updated, and UpdatePlayerDTO declares no field of
\* that name (its timestamp is last_time_update_requested, which the builder
\* never reads): the source does not say what the read gives, so
\* last_time_updated is given to the builder with the request, and may be
\* None or a value whatever the fields of the request are.
player_get_update_query_string_and_bindings(player, last_time_updated) ==
    LET q0 == "UPDATE players SET "
        q1 == IF player.name # None THEN q0 \o "name = ?, " ELSE q0
        b1 == IF player.name # None THEN <<player.name[1]>> ELSE <<>>
        q2 == IF player.score # None THEN q1 \o "score = ?, " ELSE q1
        b2 == IF player.score # None THEN Append(b1, player.score[1]) ELSE b1
        q3 == IF last_time_updated # None
              THEN q2 \o "last_time_updated = ?, " ELSE q2
        b3 == IF last_time_updated # None
              THEN Append(b2, last_time_updated[1]) ELSE b2
        truncated == SubSeq(q3, 1, Len(q3) - 2)
    IN  [query |-> truncated \o " WHERE id = ? RETURNING *;",
         bindings |-> Append(b3, player.id)]

\* ProcessError::new(message, name_of_function, bad_data)
ProcessError(name_of_function, bad_data) ==
    [tag |-> "Err", error |-> "ProcessError", bad_data |-> bad_data,
     name_of_function |-> name_of_function]

\* CardRepository::determine_query_and_bindings_to_update_card: an error
\* when no field is given, else the query text and the values bound to its
\* placeholders, the id last
determine_query_and_bindings_to_update_card(card_data) ==
    IF /\ card_data.player_id = None
       /\ card_data.claim_id = None
       /\ card_data.card_type = None
    THEN ProcessError("CardRepository::update_card", Some(card_data))
    ELSE
    LET q0 == "UPDATE cards SET "
        q1 == IF card_data.card_type # None THEN q0 \o "card_type = ?, " ELSE q0
        p1 == IF card_data.card_type # None
              THEN <<CardType_index(card_data.card_type[1])>> ELSE <<>>
        q2 == IF card_data.player_id # None THEN q1 \o "player_id = ?, " ELSE q1
        p2 == IF card_data.player_id # None
              THEN Append(p1, card_data.player_id[1]) ELSE p1
        q3 == IF card_data.claim_id # None THEN q2 \o "claim_id = ?, " ELSE q2
        p3 == IF card_data.claim_id # None
              THEN Append(p2, card_data.claim_id[1]) ELSE p2
        truncated == SubSeq(q3, 1, Len(q3) - 2)
    IN  Ok([query |-> truncated \o " WHERE id = ? RETURNING *;",
            bindings |-> Append(p3, card_data.id)])

----------------------------------------------------------------------------
(* The D1 database behind the repositories.  A row is the record of its    *)
(* columns that are not NULL.  db.games, db.cards and db.claims are sets   *)
(* of rows with distinct ids; db.players is the players table in the order *)
(* SELECT returns its rows, which the engine chooses.  db.schema says      *)
(* which columns the tables have: "written", the columns the INSERT        *)
(* statements name, or "read", one column for each field of the struct     *)
(* that first() and results() read the rows into.                          *)

\* the cell of a column that holds an enum: the number that index() gave,
\* as the INSERT and UPDATE statements bind it, or the name of the variant
Number(n) == [number |-> n]
Text(s) == [text |-> s]

EnumColumns == {"state", "card_to_play", "card_type"}

\* the fields of the structs the rows are read into
GameFields ==
    {"id", "players", "which_player_turn", "state", "started_at",
     "round_number", "chat", "card_to_play", "claims"}
PlayerFields ==
    {"id", "name", "score", "joined_at", "assigned_cards", "game_id",
     "last_time_update_requested"}
ClaimFields == {"created_by", "number_of_cards", "cards"}

\* the columns the INSERT of add_game names
GameInsertColumns ==
    {"id", "started_at", "round_number", "state", "which_players_turn",
     "card_to_play"}

\* the columns of the games table
GameTableColumns(schema) ==
    IF schema = "written" THEN GameInsertColumns ELSE GameFields

\* first::<T>() and results::<T>(): serde reads a row into the struct when
\* every field of the struct has a column that is not NULL, an enum from the
\* name of its variant and not from a number
Deserializes(row, fields) ==
    /\ fields \subseteq DOMAIN row
    /\ \A f \in fields \cap EnumColumns : "text" \in DOMAIN row[f]

\* the struct read from a row that deserializes
FromRow(row, fields) ==
    [f \in fields |-> IF f \in EnumColumns THEN row[f].text ELSE row[f]]

\* the columns of the games table that the UPDATE names
GameColumns == {"state", "round_number", "card_to_play", "which_player_turn"}

HasPrefix(text, prefix) ==
    Len(text) >= Len(prefix) /\ SubSeq(text, 1, Len(prefix)) = prefix

HasSuffix(text, suffix) ==
    /\ Len(text) >= Len(suffix)
    /\ SubSeq(text, Len(text) - Len(suffix) + 1, Len(text)) = suffix

RECURSIVE ParseAssignments(_)
\* the columns of a text "c1 = ?, c2 = ?, ..." (as a set of one list), or
\* no list when the text is not of this form
ParseAssignments(text) ==
    LET last == {c \in GameColumns : text = c \o " = ?"}
        more == {c \in GameColumns : HasPrefix(text, c \o " = ?, ")}
    IN  IF last # {} THEN {<<CHOOSE c \in last : TRUE>>}
        ELSE IF more = {} THEN {}
        ELSE LET c == CHOOSE col \in more : TRUE
                 rest == SubSeq(text, Len(c) + Len(" = ?, ") + 1, Len(text))
             IN  {<<c>> \o cols : cols \in ParseAssignments(rest)}

UpdateTail == " WHERE id = ? RETURNING *;"

\* the column list the query text parses to as an UPDATE of games with a
\* RETURNING clause: none when it is malformed
ParseUpdate(query) ==
    LET UpdateHead == "UPDATE games SET "
    IN  IF /\ HasPrefix(query, UpdateHead)
           /\ HasSuffix(query, UpdateTail)
           /\ Len(query) > Len(UpdateHead) + Len(UpdateTail)
        THEN ParseAssignments(SubSeq(query, Len(UpdateHead) + 1,
                                     Len(query) - Len(UpdateTail)))
        ELSE {}

WellFormedUpdate(query) == ParseUpdate(query) # {}

(* The text of an UPDATE statement as the database reads it: the table,    *)
(* the columns of its SET clause in order, one placeholder each, and the   *)
(* WHERE and RETURNING clauses.                                            *)

\* the names a SET clause can hold: the columns the builders write and the
\* fields of the three requests
ColumnNames ==
    GameColumns
    \cup {"players", "chat", "claims"}
    \cup {"name", "score", "assigned_cards", "last_time_updated",
          "last_time_update_requested"}
    \cup {"card_type", "player_id", "claim_id"}

RECURSIVE ParseSetClause(_)
\* the columns of a text "c1 = ?, c2 = ?, ..." (as a set of one list), or
\* no list when the text is not of this form
ParseSetClause(text) ==
    LET last == {c \in ColumnNames : text = c \o " = ?"}
        more == {c \in ColumnNames : HasPrefix(text, c \o " = ?, ")}
    IN  IF last # {} THEN {<<CHOOSE c \in last : TRUE>>}
        ELSE IF more = {} THEN {}
        ELSE LET c == CHOOSE col \in more : TRUE
                 rest == SubSeq(text, Len(c) + Len(" = ?, ") + 1, Len(text))
             IN  {<<c>> \o cols : cols \in ParseSetClause(rest)}

\* the column list the query text parses to as an UPDATE of the table with
\* a WHERE id = ? and a RETURNING clause: none when it is malformed
ParseUpdateOf(table, query) ==
    LET head == "UPDATE " \o table \o " SET "
    IN  IF /\ HasPrefix(query, head)
           /\ HasSuffix(query, UpdateTail)
           /\ Len(query) > Len(head) + Len(UpdateTail)
        THEN ParseSetClause(SubSeq(query, Len(head) + 1,
                                   Len(query) - Len(UpdateTail)))
        ELSE {}

RECURSIVE AssignColumns(_, _, _, _)
AssignColumns(row, cols, bindings, i) ==
    IF i > Len(cols) THEN row
    ELSE AssignColumns([c \in DOMAIN row \cup {cols[i]} |->
                            IF c # cols[i] THEN row[c]
                            ELSE IF c \in EnumColumns
                            THEN Number(bindings[i])
                            ELSE bindings[i]],
                       cols, bindings, i + 1)

\* prepare(query).bind(bindings).first::<Game>(): the database runs the
\* UPDATE and the row it returns is read into a Game.  The answer is an
\* error with the table as it was when the call fails, the text does not
\* parse or names a column the table does not have; no row when no game has
\* the id; and else the table holds the updated row, and the answer is the
\* Game read from it, or an error when the row does not deserialize.
ExecUpdate(columns, games, query, bindings, fails) ==
    IF fails \/ ~WellFormedUpdate(query) THEN [tag |-> "Err", games |-> games]
    ELSE LET cols == CHOOSE c \in ParseUpdate(query) : TRUE
             hit == {r \in games : r.id = bindings[Len(bindings)]}
         IN  IF \/ Len(bindings) # Len(cols) + 1
                \/ \E i \in DOMAIN cols : cols[i] \notin columns
             THEN [tag |-> "Err", games |-> games]
             ELSE IF hit = {} THEN [tag |-> "Ok", row |-> None, games |-> games]
             ELSE LET old == CHOOSE r \in hit : TRUE
                      new == AssignColumns(old, cols, bindings, 1)
                      stored == (games \ {old}) \cup {new}
                  IN  IF Deserializes(new, GameFields)
                      THEN [tag |-> "Ok", row |-> Some(FromRow(new, GameFields)),
                            games |-> stored]
                      ELSE [tag |-> "Err", games |-> stored]

\* the placeholders the database reads in a statement: ? and ?N
Placeholders ==
    {"?"} \cup {"?" \o d : d \in {"1", "2", "3", "4", "5", "6", "7", "8", "9"}}

RECURSIVE ParsePlaceholders(_)
\* the number of placeholders of a text "p1, p2, ..." (as a set of one
\* number), or no number when the text is not of this form
ParsePlaceholders(text) ==
    LET last == {p \in Placeholders : text = p}
        more == {p \in Placeholders : HasPrefix(text, p \o ", ")}
    IN  IF last # {} THEN {1}
        ELSE IF more = {} THEN {}
        ELSE LET p == CHOOSE q \in more : TRUE
                 rest == SubSeq(text, Len(p) + Len(", ") + 1, Len(text))
             IN  {n + 1 : n \in ParsePlaceholders(rest)}

\* whether the text is the INSERT ... VALUES (placeholders) RETURNING *; of
\* the table and columns given
WellFormedInsert(into, query) ==
    LET InsertValues == " VALUES ("
        InsertTail == ") RETURNING *;"
    IN  /\ HasPrefix(query, into \o InsertValues)
        /\ HasSuffix(query, InsertTail)
        /\ Len(query) > Len(into) + Len(InsertValues) + Len(InsertTail)
        /\ ParsePlaceholders(SubSeq(query, Len(into) + Len(InsertValues) + 1,
                                    Len(query) - Len(InsertTail))) # {}

\* the statement of add_game (its line break written as one space)
InsertGameInto ==
    "INSERT INTO games (id, started_at, round_number, state, "
    \o "which_players_turn, card_to_play)"
InsertGame == InsertGameInto \o " VALUES (1?, 2?, 3?, 4?, 5?, 6?) RETURNING *;"

\* the row add_game binds for a game
GameRow(g) ==
    [round_number |-> g.round_number,
     id |-> g.id,
     state |-> Number(GameState_index(g.state)),
     started_at |-> g.started_at,
     card_to_play |-> Number(CardType_index(g.card_to_play)),
     which_players_turn |-> g.which_player_turn]

\* GameRepository::add_game: the INSERT and the reading of the row it
\* returns
add_game(columns, games, g, fails) ==
    IF \/ fails
       \/ ~WellFormedInsert(InsertGameInto, InsertGame)
       \/ ~(GameInsertColumns \subseteq columns)
       \/ \E r \in games : r.id = g.id
    THEN [ret |-> DatabaseQueryError(INTERNAL_SERVER_ERROR), games |-> games]
    ELSE [ret |-> IF Deserializes(GameRow(g), GameFields)
                  THEN Ok(FromRow(GameRow(g), GameFields))
                  ELSE DatabaseQueryError(INTERNAL_SERVER_ERROR),
          games |-> games \cup {GameRow(g)}]

----------------------------------------------------------------------------
(* repositories/player_repositories.rs.  fails says that the database call *)
(* of the function fails.                                                  *)

\* a Player, which is also the row of a players table that has a column
\* for every field of Player
PlayerOf(id, name) ==
    [id |-> id, score |-> 0, assigned_cards |-> <<>>, name |-> name,
     joined_at |-> "now", game_id |-> 1,
     last_time_update_requested |-> "now"]

\* the statement of add_player (its line break written as one space)
InsertPlayerInto == "INSERT INTO players (id, name, game_id, joined_at)"

\* a statement with the placeholders the database reads
InsertPlayer_numbered ==
    InsertPlayerInto \o " VALUES (?1, ?2, ?3, ?4) RETURNING *;"

InsertPlayer == InsertPlayerInto \o " VALUES (1?, 2?, 3?, 4?) RETURNING *;"

\* the row add_player binds for a player
PlayerRow(player) ==
    [id |-> player.id, name |-> player.name,
     joined_at |-> player.joined_at, game_id |-> player.game_id]

get_all_players(players, fails) ==
    IF fails THEN DatabaseQueryError(INTERNAL_SERVER_ERROR)
    ELSE IF \E i \in DOMAIN players : ~Deserializes(players[i], PlayerFields)
    THEN DatabaseQueryError(INTERNAL_SERVER_ERROR)
    ELSE IF players = <<>> THEN DatabaseQueryError(NOT_FOUND)
    ELSE Ok([i \in DOMAIN players |-> FromRow(players[i], PlayerFields)])

delete_player(players, player_id, fails) ==
    IF fails
    THEN [ret |-> DatabaseQueryError(INTERNAL_SERVER_ERROR), players |-> players]
    ELSE [ret |-> Ok(<<>>),
          players |-> SelectSeq(players, LAMBDA p : p.id # player_id)]

\* the INSERT and the reading of the row it returns; SELECT lists the new
\* row after the ones stored before
add_player(players, player, fails) ==
    IF \/ fails
       \/ ~WellFormedInsert(InsertPlayerInto, InsertPlayer)
       \/ \E i \in DOMAIN players : players[i].id = player.id
    THEN [ret |-> DatabaseQueryError(INTERNAL_SERVER_ERROR), players |-> players]
    ELSE [ret |-> IF Deserializes(PlayerRow(player), PlayerFields)
                  THEN Ok(FromRow(PlayerRow(player), PlayerFields))
                  ELSE DatabaseQueryError(INTERNAL_SERVER_ERROR),
          players |-> Append(players, PlayerRow(player))]

get_player(players, player_id, fails) ==
    IF fails THEN DatabaseQueryError(INTERNAL_SERVER_ERROR)
    ELSE IF ~\E i \in DOMAIN players : players[i].id = player_id
    THEN DatabaseQueryError(NOT_FOUND)
    ELSE LET row == players[CHOOSE i \in DOMAIN players :
                                players[i].id = player_id]
         IN  IF Deserializes(row, PlayerFields)
             THEN Ok(FromRow(row, PlayerFields))
             ELSE DatabaseQueryError(INTERNAL_SERVER_ERROR)

\* PlayerRepository::update_player: the UPDATE the builder wrote and the
\* reading of the row it returns.  The row keeps its place in the table and
\* stays updated when it does not deserialize.
update_player(columns, players, player, last_time_updated, fails) ==
    LET built == player_get_update_query_string_and_bindings(player,
                                                             last_time_updated)
        parsed == ParseUpdateOf("players", built.query)
        failed == [ret |-> DatabaseQueryError(INTERNAL_SERVER_ERROR),
                   players |-> players]
    IN  IF fails \/ parsed = {} THEN failed
        ELSE LET cols == CHOOSE c \in parsed : TRUE
                 hit == {i \in DOMAIN players : players[i].id = player.id}
             IN  IF \/ Len(built.bindings) # Len(cols) + 1
                    \/ \E i \in DOMAIN cols : cols[i] \notin columns
                    \/ hit = {}
                 THEN failed
                 ELSE LET i == CHOOSE j \in hit : TRUE
                          new == AssignColumns(players[i], cols,
                                               built.bindings, 1)
                      IN  [ret |-> IF Deserializes(new, PlayerFields)
                                   THEN Ok(FromRow(new, PlayerFields))
                                   ELSE DatabaseQueryError(INTERNAL_SERVER_ERROR),
                           players |-> [players EXCEPT ![i] = new]]

----------------------------------------------------------------------------
(* The lookups by id of the four repositories: SELECT ... WHERE id = ? and *)
(* first::<T>(), which reads the row found into the struct.                *)

\* the row create_card binds for a card, and the row of a cards table that
\* holds the name of the card's type
CardRow(id) ==
    [id |-> id, card_type |-> Number(CardType_index("King")), player_id |-> 1]
ReadableCardRow(id) == [id |-> id, card_type |-> Text("King")]

\* a row of the claims table with the values create_claim binds (it binds
\* none for cards), and one whose cards column holds a list
ClaimRow(id) == [id |-> id, created_by |-> 1, number_of_cards |-> 0]
ReadableClaimRow(id) ==
    [id |-> id, cards |-> <<>>, created_by |-> 1, number_of_cards |-> 0]

\* first::<T>() of the rows with the id
FirstById(rows, id, fields, fails) ==
    IF fails THEN DatabaseQueryError(INTERNAL_SERVER_ERROR)
    ELSE IF ~\E row \in rows : row.id = id THEN DatabaseQueryError(NOT_FOUND)
    ELSE LET row == CHOOSE r \in rows : r.id = id
         IN  IF Deserializes(row, fields) THEN Ok(FromRow(row, fields))
             ELSE DatabaseQueryError(INTERNAL_SERVER_ERROR)

get_game_by_id(games, game_id, fails) ==
    FirstById(games, game_id, GameFields, fails)

get_card_by_id(cards, id, fails) ==
    FirstById(cards, id, {"id", "card_type"}, fails)

get_claim_by_id_reporting_failure(claims, id, fails) ==
    IF ~\E row \in claims : row.id = id
    THEN DatabaseQueryError(INTERNAL_SERVER_ERROR)
    ELSE FirstById(claims, id, ClaimFields, fails)

get_claim_by_id(claims, id, fails) == FirstById(claims, id, ClaimFields, fails)

----------------------------------------------------------------------------
(* The calls of the card and claim repositories that write their tables.   *)
(* ClaimsRepository::create_claim is not among them: it reads claim.id,    *)
(* and Claim declares no field of that name.                               *)

\* CardRepository::create_card: the INSERT and the reading of the row it
\* returns
create_card(cards, card, fails) ==
    IF \/ fails
       \/ LET InsertCardInto == "INSERT INTO cards (id, card_type, player_id)"
          IN  ~WellFormedInsert(InsertCardInto,
                                InsertCardInto
                                \o " VALUES (1?, 2?, 3?) RETURN *;")
       \/ \E r \in cards : r.id = card.id
    THEN [ret |-> DatabaseQueryError(INTERNAL_SERVER_ERROR), cards |-> cards]
    ELSE [ret |-> IF Deserializes(CardRow(card.id), {"id", "card_type"})
                  THEN Ok(FromRow(CardRow(card.id), {"id", "card_type"}))
                  ELSE DatabaseQueryError(INTERNAL_SERVER_ERROR),
          cards |-> cards \cup {CardRow(card.id)}]

\* CardRepository::update_card: no database call when the builder answers
\* with an error; else the UPDATE the builder wrote and the reading of the
\* row it returns.  The row stays updated when it does not deserialize.
update_card(columns, cards, card_data, fails) ==
    LET built == determine_query_and_bindings_to_update_card(card_data)
        failed == [ret |-> DatabaseQueryError(INTERNAL_SERVER_ERROR),
                   cards |-> cards]
    IN  IF built.tag = "Err"
        THEN [ret |-> DatabaseQueryError(BAD_REQUEST), cards |-> cards]
        ELSE IF fails \/ ParseUpdateOf("cards", built.value.query) = {}
        THEN failed
        ELSE LET cols == CHOOSE c \in ParseUpdateOf("cards", built.value.query) :
                            TRUE
                 bindings == built.value.bindings
                 hit == {r \in cards : r.id = bindings[Len(bindings)]}
             IN  IF \/ Len(bindings) # Len(cols) + 1
                    \/ \E i \in DOMAIN cols : cols[i] \notin columns
                 THEN failed
                 ELSE IF hit = {}
                 THEN [ret |-> DatabaseQueryError(NOT_FOUND), cards |-> cards]
                 ELSE LET old == CHOOSE r \in hit : TRUE
                          new == AssignColumns(old, cols, bindings, 1)
                      IN  [ret |-> IF Deserializes(new, {"id", "card_type"})
                                   THEN Ok(FromRow(new, {"id", "card_type"}))
                                   ELSE DatabaseQueryError(INTERNAL_SERVER_ERROR),
                           cards |-> (cards \ {old}) \cup {new}]

----------------------------------------------------------------------------
(* repositories/game_repository.rs *)

Statements_replacing_all(all_current_players, new_players) ==
    [k \in 1..Len(all_current_players) |->
        [player |-> all_current_players[k], op |-> "delete"]]
    \o [k \in 1..Len(new_players) |-> [player |-> new_players[k], op |-> "add"]]

\* the two loops of update_players_in_game as the statements they send: a
\* delete for each current player that is not in the new list, then an add
\* for each new player that is not a current one
Statements(all_current_players, new_players) ==
    LET to_delete == SelectSeq(all_current_players,
            LAMBDA player : ~\E i \in DOMAIN new_players :
                                new_players[i].id = player.id)
        to_add == SelectSeq(new_players,
            LAMBDA player : ~\E i \in DOMAIN all_current_players :
                                all_current_players[i].id = player.id)
    IN  [k \in 1..Len(to_delete) |-> [player |-> to_delete[k], op |-> "delete"]]
        \o [k \in 1..Len(to_add) |-> [player |-> to_add[k], op |-> "add"]]

----------------------------------------------------------------------------
(* The state after construction *)

NoCall == [op |-> "new"]
NoRet == [tag |-> "None"]

\* the database before anything is stored
EmptyDb ==
    [cards |-> {}, players |-> <<>>, claims |-> {}, schema |-> "written",
     games |-> {}]

\* no update_game call is waiting for the database
NoTasks == [t \in 1..MaxCalls |-> [pc |-> "idle"]]

\* no stream yet: sse_handler has not been called
NoStream == [pc |-> "none", events |-> 0, gap |-> 0]

Init ==
    /\ game = Game_new
    /\ rounds = <<>>
    /\ chat = Chat_new
    /\ accepted = 0
    /\ db = EmptyDb
    /\ sse = NoStream
    /\ tasks = NoTasks
    /\ call = NoCall
    /\ ret = NoRet

----------------------------------------------------------------------------
(* Spec: one game.  Its fields are public; the callers push and remove     *)
(* players, pass the turn, set the card, push claims made with Claim::new, *)
(* and call prep_for_new_round.                                            *)

IdsOf(players) == {players[i].id : i \in 1..Len(players)}

RemoveAt(s, i) == SubSeq(s, 1, i - 1) \o SubSeq(s, i + 1, Len(s))

\* the hands the players of the game claim with
SampleHands ==
    {<<Card(1, "Joker")>>, <<Card(1, "King"), Card(2, "Queen")>>}

JoinPlayer(id) ==
    /\ id \notin IdsOf(game.players)
    /\ game' = [game EXCEPT !.players = Append(game.players, Player_new(id))]
    /\ call' = [op |-> "players.push"]
    /\ ret' = NoRet
    /\ UNCHANGED <<tasks, db, sse, rounds, chat, accepted>>

LeavePlayer(i) ==
    /\ i \in 1..Len(game.players)
    /\ game' = [game EXCEPT !.players = RemoveAt(game.players, i)]
    /\ call' = [op |-> "players.remove"]
    /\ ret' = NoRet
    /\ UNCHANGED <<tasks, db, sse, rounds, chat, accepted>>

PassTurn(id) ==
    /\ id \in IdsOf(game.players)
    /\ id # game.which_player_turn
    /\ game' = [game EXCEPT !.which_player_turn = id]
    /\ call' = [op |-> "which_player_turn ="]
    /\ ret' = NoRet
    /\ UNCHANGED <<tasks, db, sse, rounds, chat, accepted>>

SetCardToPlay(c) ==
    /\ c # game.card_to_play
    /\ game' = [game EXCEPT !.card_to_play = c]
    /\ call' = [op |-> "card_to_play ="]
    /\ ret' = NoRet
    /\ UNCHANGED <<tasks, db, sse, rounds, chat, accepted>>

PlaceClaim(created_by, cards) ==
    LET made == Claim_new(created_by, Len(cards), cards)
    IN  /\ created_by \in IdsOf(game.players)
        /\ Len(game.claims) < MaxClaims
        /\ made.tag = "Ok"
        /\ game' = [game EXCEPT !.claims = Append(game.claims, made.value)]
        /\ call' = [op |-> "claims.push"]
        /\ ret' = NoRet
        /\ UNCHANGED <<tasks, db, sse, rounds, chat, accepted>>

PrepForNewRound ==
    LET done == prep_for_new_round(game)
    IN  /\ game.round_number < MaxRound
        /\ game' = done.self
        /\ call' = [op |-> "prep_for_new_round", self |-> game]
        /\ ret' = done.ret
        /\ rounds' = IF done.ret.tag = "Ok"
                     THEN Append(rounds, [first |-> game.players[1].id,
                                          turn |-> done.self.which_player_turn,
                                          card |-> done.self.card_to_play])
                     ELSE rounds
        /\ UNCHANGED <<tasks, db, sse, chat, accepted>>

Next ==
    \/ \E id \in PlayerIds : JoinPlayer(id)
    \/ \E i \in 1..NumIds : LeavePlayer(i)
    \/ \E id \in PlayerIds : PassTurn(id)
    \/ \E c \in CardTypes : SetCardToPlay(c)
    \/ \E id \in PlayerIds : \E cards \in SampleHands : PlaceClaim(id, cards)
    \/ PrepForNewRound

Spec == Init /\ [][Next]_vars

----------------------------------------------------------------------------
(* ClaimSpec: Claim::new applied to bounded inputs *)

\* the cards lists of length 0..MaxCardsLen; card number i has id i
CardLists ==
    UNION {{[i \in 1..k |-> Card(i, f[i])] : f \in [1..k -> {"King", "Joker"}]}
           : k \in 0..MaxCardsLen}

NewClaim(created_by, number_of_cards, cards) ==
    /\ call' = [op |-> "Claim::new", created_by |-> created_by,
                number_of_cards |-> number_of_cards, cards |-> cards]
    /\ ret' = Claim_new(created_by, number_of_cards, cards)
    /\ UNCHANGED <<tasks, db, sse, game, rounds, chat, accepted>>

ClaimNext ==
    \E created_by \in PlayerIds : \E number_of_cards \in 0..MaxCardsLen :
        \E cards \in CardLists : NewClaim(created_by, number_of_cards, cards)

ClaimSpec == Init /\ [][ClaimNext]_vars

----------------------------------------------------------------------------
(* ChatSpec: one chat, from Chat::new.  Message number n is the n-th       *)
(* message the chat accepted; a rejected message leaves the count alone.  *)

AddChatMessage(content) ==
    LET message == ChatMessage(accepted + 1, content)
        done == add_chat_message(chat, message)
    IN  /\ accepted < MaxAccepted
        /\ chat' = done.self
        /\ accepted' = IF done.ret.tag = "Ok" THEN accepted + 1 ELSE accepted
        /\ call' = [op |-> "add_chat_message", self |-> chat, message |-> message]
        /\ ret' = done.ret
        /\ UNCHANGED <<tasks, db, sse, game, rounds>>

ResetChat ==
    /\ chat' = reset(chat)
    /\ call' = [op |-> "reset", self |-> chat]
    /\ ret' = NoRet
    /\ UNCHANGED <<tasks, db, sse, game, rounds, accepted>>

ChatNext ==
    \/ \E content \in {"", "hi"} : AddChatMessage(content)
    \/ ResetChat

ChatSpec == Init /\ [][ChatNext]_vars

(* RepoSpec: one database and the repository calls made on it.            *)


\* the player with this id as a request carries it
DtoPlayer(id) == PlayerOf(id, "new")

\* the optional fields of a request other than players: none, and one
NoFields ==
    [chat |-> None, round_number |-> None, which_player_turn |-> None,
     state |-> None, card_to_play |-> None, claims |-> None]

RoundOnly == [NoFields EXCEPT !.round_number = Some(2)]

UpdateGameDTO(id, players, fields) ==
    [chat |-> fields.chat,
     round_number |-> fields.round_number,
     id |-> id,
     players |-> players,
     which_player_turn |-> fields.which_player_turn,
     state |-> fields.state,
     card_to_play |-> fields.card_to_play,
     claims |-> fields.claims]

\* the game with this id as Game::new builds it
StoredGame(id) == [Game_new EXCEPT !.id = id]

\* the rows of a game and of a player in a table of the schema: the row
\* add_game binds, or one with a column for every field of Game
GameRowOf(schema, id) ==
    LET g == StoredGame(id)
    IN  IF schema = "written" THEN GameRow(g)
        ELSE [g EXCEPT !.state = Text(g.state),
                       !.card_to_play = Text(g.card_to_play)]

PlayerRowOf(schema, id) ==
    IF schema = "written" THEN PlayerRow(PlayerOf(id, "old"))
    ELSE PlayerOf(id, "old")

\* the calls start from a database of either schema, with game 1 stored
\* or not, and with no player or MAX_PLAYERS players, whose rows SELECT
\* returns in an order that is not the order of their ids
RepoInit ==
    /\ game = Game_new
    /\ rounds = <<>>
    /\ chat = Chat_new
    /\ accepted = 0
    /\ db \in
            {[cards |-> {},
              players |-> [i \in DOMAIN ids |-> PlayerRowOf(schema, ids[i])],
              claims |-> {},
              schema |-> schema,
              games |-> IF stored THEN {GameRowOf(schema, 1)} ELSE {}] :
                schema \in {"written", "read"},
                ids \in {<<>>, [i \in 1..MAX_PLAYERS |->
                                    IF i <= 2 THEN 3 - i ELSE i]},
                stored \in BOOLEAN}
    /\ sse = NoStream
    /\ tasks = NoTasks
    /\ call = NoCall
    /\ ret = NoRet

\* GameRepository::add_game of a new game
AddGame(id, fails) ==
    LET r == add_game(GameTableColumns(db.schema), db.games, StoredGame(id), fails)
    IN  /\ call' = [id |-> id, op |-> "add_game"]
        /\ ret' = r.ret
        /\ db' = [db EXCEPT !.games = r.games]
        /\ UNCHANGED <<game, rounds, chat, accepted, sse, tasks>>

\* GameRepository::delete_game: DELETE FROM games WHERE id = ?
DeleteGame(id, fails) ==
    /\ call' = [id |-> id, op |-> "delete_game"]
    /\ ret' = IF fails THEN DatabaseQueryError(INTERNAL_SERVER_ERROR)
              ELSE Ok(<<>>)
    /\ db' = IF fails THEN db
             ELSE [db EXCEPT !.games = {r \in db.games : r.id # id}]
    /\ UNCHANGED <<game, rounds, chat, accepted, sse, tasks>>

\* PlayerRepository::add_player called directly, as when a player joins
AddPlayer(player, fails) ==
    LET r == add_player(db.players, player, fails)
    IN  /\ call' = [player |-> player, op |-> "add_player"]
        /\ ret' = r.ret
        /\ db' = [db EXCEPT !.players = r.players]
        /\ UNCHANGED <<game, rounds, chat, accepted, sse, tasks>>

\* PlayerRepository::update_player called directly
UpdatePlayer(player, last_time_updated, fails) ==
    LET columns == IF db.schema = "written"
                   THEN {"id", "name", "game_id", "joined_at"}
                   ELSE PlayerFields
        r == update_player(columns, db.players, player, last_time_updated, fails)
    IN  /\ call' = [player |-> player,
                    last_time_updated |-> last_time_updated,
                    op |-> "update_player"]
        /\ ret' = r.ret
        /\ db' = [db EXCEPT !.players = r.players]
        /\ UNCHANGED <<game, rounds, chat, accepted, sse, tasks>>

\* PlayerRepository::delete_player called directly, as when a player leaves
DeletePlayer(id, fails) ==
    LET r == delete_player(db.players, id, fails)
    IN  /\ call' = [id |-> id, op |-> "delete_player"]
        /\ ret' = r.ret
        /\ db' = [db EXCEPT !.players = r.players]
        /\ UNCHANGED <<game, rounds, chat, accepted, sse, tasks>>

(* GameRepository::update_game awaits each of its database calls, and     *)
(* other calls run while it waits: one step for each database call.  A    *)
(* task is a call that waits for the database: tasks[t].row is the Game   *)
(* its UPDATE returned, tasks[t].current the players its SELECT returned, *)
(* tasks[t].ops the deletes and adds of its two loops and tasks[t].next   *)
(* the number of the one it sends next.  fails says that the database    *)
(* call of the step fails.                                                *)

\* update_game returns: call records the request, the Game its UPDATE
\* returned and the players its SELECT returned (none when it did not get
\* that far), the deletes and adds sent to the database, the failing one
\* included, and the number of the database call that failed (0: none)
Returns(t, game_data, row, fetched, issued, fault, result) ==
    /\ call' = [game_data |-> game_data,
                query |-> get_update_query_string_and_bindings(game_data).query,
                row |-> row, op |-> "update_game", fetched |-> fetched,
                issued |-> issued, fault |-> fault]
    /\ ret' = result
    /\ tasks' = [tasks EXCEPT ![t] = [pc |-> "idle"]]

\* update_game up to the answer of its UPDATE, and the check of the new
\* list that update_players_in_game makes before its SELECT
UpdateGame(t, game_data, fails) ==
    LET built == get_update_query_string_and_bindings(game_data)
        query_result == ExecUpdate(GameTableColumns(db.schema), db.games,
                                   built.query, built.bindings, fails)
        fault == IF fails THEN 1 ELSE 0
    IN  /\ tasks[t].pc = "idle"
        /\ \A u \in 1..(t - 1) : tasks[u].pc # "idle"
        /\ db' = [db EXCEPT !.games = query_result.games]
        /\ IF query_result.tag = "Err"
           THEN Returns(t, game_data, None, None, <<>>, fault,
                        DatabaseQueryError(INTERNAL_SERVER_ERROR))
           ELSE IF query_result.row = None \/ game_data.players = None
           THEN Returns(t, game_data, query_result.row, None, <<>>, fault,
                        DatabaseQueryError(INTERNAL_SERVER_ERROR))
           ELSE IF Len(game_data.players[1]) = 0
           THEN Returns(t, game_data, query_result.row, None, <<>>, fault,
                        DatabaseQueryError(BAD_REQUEST))
           ELSE /\ tasks' = [tasks EXCEPT ![t] =
                                [game_data |-> game_data,
                                 row |-> query_result.row,
                                 pc |-> "get_all_players"]]
                /\ UNCHANGED <<call, ret>>
        /\ UNCHANGED <<game, rounds, chat, accepted, sse>>

\* update_players_in_game from its SELECT to the first statement of its
\* loops
FetchPlayers(t, fails) ==
    LET task == tasks[t]
        fetched == get_all_players(db.players, fails)
    IN  /\ task.pc = "get_all_players"
        /\ IF fetched.tag = "Err"
           THEN Returns(t, task.game_data, task.row, None, <<>>,
                        IF fails THEN 2 ELSE 0,
                        DatabaseQueryError(fetched.status_code))
           ELSE LET ops == Statements(fetched.value, task.game_data.players[1])
                IN  IF ops = <<>>
                    THEN Returns(t, task.game_data, task.row,
                                 Some(fetched.value), <<>>, 0,
                                 Ok([task.row[1] EXCEPT
                                        !.players = fetched.value]))
                    ELSE /\ tasks' = [tasks EXCEPT ![t] =
                                        [game_data |-> task.game_data,
                                         row |-> task.row,
                                         pc |-> "statements",
                                         ops |-> ops,
                                         current |-> fetched.value,
                                         next |-> 1]]
                         /\ UNCHANGED <<call, ret>>
        /\ UNCHANGED <<game, rounds, chat, accepted, db, sse>>

\* one delete or add of the loops of update_players_in_game; after the
\* last one the call returns the players its SELECT returned
RunStatement(t, fails) ==
    LET task == tasks[t]
        statement == task.ops[task.next]
        r == IF statement.op = "delete"
             THEN delete_player(db.players, statement.player.id, fails)
             ELSE add_player(db.players, statement.player, fails)
        issued == SubSeq(task.ops, 1, task.next)
    IN  /\ task.pc = "statements"
        /\ db' = [db EXCEPT !.players = r.players]
        /\ IF r.ret.tag = "Err"
           THEN Returns(t, task.game_data, task.row, Some(task.current),
                        issued, IF fails THEN 2 + task.next ELSE 0,
                        DatabaseQueryError(r.ret.status_code))
           ELSE IF task.next = Len(task.ops)
           THEN Returns(t, task.game_data, task.row, Some(task.current),
                        issued, 0,
                        Ok([task.row[1] EXCEPT !.players = task.current]))
           ELSE /\ tasks' = [tasks EXCEPT ![t].next = task.next + 1]
                /\ UNCHANGED <<call, ret>>
        /\ UNCHANGED <<game, rounds, chat, accepted, sse>>

\* handlers/game_handlers.rs, update_game: the handler of PUT /game/update
\* reads the body of the request and answers Err(StatusCode::OK)
handle_update_game(request) == [tag |-> "Err", status_code |-> OK]

\* PUT /game/update, which router_provider.rs routes to the handler
PutGameUpdate(game_data) ==
    /\ call' = [game_data |-> game_data, op |-> "PUT /game/update"]
    /\ ret' = handle_update_game([body |-> game_data])
    /\ UNCHANGED <<game, rounds, chat, accepted, db, sse, tasks>>

\* the requests.  With one column to update, the players field is absent,
\* empty, the stored players but one, MAX_PLAYERS players of which one is
\* not stored, or the stored players and one more, which are more than
\* MAX_PLAYERS.  With no players field, no column or every column is
\* updated, or the request names a game that is not stored.
Requests ==
    {UpdateGameDTO(1, players, RoundOnly) :
        players \in
            {None, Some(<<>>)}
            \cup {Some(SelectSeq([i \in 1..MAX_PLAYERS |-> DtoPlayer(i)],
                                 LAMBDA player : player.id # id)) : id \in 1..2}
            \cup {Some([i \in 1..k |-> DtoPlayer(i + NumRosterIds - k)]) :
                    k \in {MAX_PLAYERS, NumRosterIds}}}
    \cup {UpdateGameDTO(1, None, fields) :
            fields \in {NoFields,
                        [chat |-> Some(Chat_new), round_number |-> Some(3),
                         which_player_turn |-> Some(1),
                         state |-> Some("InProgress"),
                         card_to_play |-> Some("Queen"), claims |-> Some(<<>>)]}}
    \cup {UpdateGameDTO(2, None, RoundOnly)}

RepoNext ==
    \/ \E id \in {1}, fails \in BOOLEAN : AddGame(id, fails)
    \/ \E id \in {1}, fails \in BOOLEAN : DeleteGame(id, fails)
    \/ \E id \in 1..2, fails \in BOOLEAN : AddPlayer(PlayerOf(id, "old"), fails)
    \/ \E name \in {None, Some("renamed")},
          last_time_updated \in {None, Some("now")}, fails \in BOOLEAN :
            UpdatePlayer([id |-> 1, score |-> None, assigned_cards |-> None,
                          name |-> name, last_time_update_requested |-> None],
                         last_time_updated, fails)
    \/ \E id \in 1..2, fails \in BOOLEAN : DeletePlayer(id, fails)
    \/ \E t \in 1..MaxCalls, game_data \in Requests, fails \in BOOLEAN :
            UpdateGame(t, game_data, fails)
    \/ \E t \in 1..MaxCalls, fails \in BOOLEAN : FetchPlayers(t, fails)
    \/ \E t \in 1..MaxCalls, fails \in BOOLEAN : RunStatement(t, fails)
    \/ \E players \in {None, Some(<<DtoPlayer(1)>>)} :
            PutGameUpdate(UpdateGameDTO(1, players, RoundOnly))

RepoSpec == RepoInit /\ [][RepoNext]_vars

----------------------------------------------------------------------------
(* LookupSpec: the lookups by id, for the ids 1 and 2, and the calls that  *)
(* write the tables they read.  The database starts with no row or the    *)
(* row with id 1 in each table.                                           *)

DatabasesOf(schema) ==
    {[cards |-> cards, players |-> players, claims |-> claims,
      schema |-> schema, games |-> games] :
        cards \in {{}, {IF schema = "written" THEN CardRow(1)
                                               ELSE ReadableCardRow(1)}},
        players \in {<<>>, <<PlayerRowOf(schema, 1)>>},
        claims \in {{}, {IF schema = "written" THEN ClaimRow(1)
                                                ELSE ReadableClaimRow(1)}},
        games \in {{}, {GameRowOf(schema, 1)}}}

LookupInit ==
    /\ game = Game_new
    /\ rounds = <<>>
    /\ chat = Chat_new
    /\ accepted = 0
    /\ db \in DatabasesOf("written") \cup DatabasesOf("read")
    /\ sse = NoStream
    /\ tasks = NoTasks
    /\ call = NoCall
    /\ ret = NoRet

Lookup(op, id, fails) ==
    /\ call' = [db |-> db, id |-> id, fails |-> fails, op |-> op]
    /\ ret' = CASE op = "get_game_by_id" -> get_game_by_id(db.games, id, fails)
                [] op = "get_player" -> get_player(db.players, id, fails)
                [] op = "get_card_by_id" -> get_card_by_id(db.cards, id, fails)
                [] op = "get_claim_by_id" -> get_claim_by_id(db.claims, id, fails)
    /\ UNCHANGED <<tasks, game, rounds, chat, accepted, db, sse>>

\* CardRepository::create_card of a King for player 1
CreateCard(id, fails) ==
    LET r == create_card(db.cards, Card(id, "King"), fails)
    IN  /\ call' = [id |-> id, op |-> "create_card"]
        /\ ret' = r.ret
        /\ db' = [db EXCEPT !.cards = r.cards]
        /\ UNCHANGED <<game, rounds, chat, accepted, sse, tasks>>

\* CardRepository::update_card; the cards table has the columns the INSERT
\* of create_card names, or one for each field of Card
UpdateCard(card_data, fails) ==
    LET columns == IF db.schema = "written"
                   THEN {"id", "card_type", "player_id"}
                   ELSE {"id", "card_type"}
        r == update_card(columns, db.cards, card_data, fails)
    IN  /\ call' = [card_data |-> card_data, op |-> "update_card"]
        /\ ret' = r.ret
        /\ db' = [db EXCEPT !.cards = r.cards]
        /\ UNCHANGED <<game, rounds, chat, accepted, sse, tasks>>

\* CardRepository::delete_card: DELETE FROM cards WHERE id = ?
DeleteCard(id, fails) ==
    /\ call' = [id |-> id, op |-> "delete_card"]
    /\ ret' = IF fails THEN DatabaseQueryError(INTERNAL_SERVER_ERROR)
              ELSE Ok(<<>>)
    /\ db' = IF fails THEN db
             ELSE [db EXCEPT !.cards = {r \in db.cards : r.id # id}]
    /\ UNCHANGED <<game, rounds, chat, accepted, sse, tasks>>

\* ClaimsRepository::delete_claim: DELETE FROM claims WHERE id = ?
DeleteClaim(id, fails) ==
    /\ call' = [id |-> id, op |-> "delete_claim"]
    /\ ret' = IF fails THEN DatabaseQueryError(INTERNAL_SERVER_ERROR)
              ELSE Ok(<<>>)
    /\ db' = IF fails THEN db
             ELSE [db EXCEPT !.claims = {r \in db.claims : r.id # id}]
    /\ UNCHANGED <<game, rounds, chat, accepted, sse, tasks>>

GetGameById(id, fails) == Lookup("get_game_by_id", id, fails)
GetPlayer(id, fails) == Lookup("get_player", id, fails)
GetCardById(id, fails) == Lookup("get_card_by_id", id, fails)
GetClaimById(id, fails) == Lookup("get_claim_by_id", id, fails)

\* the lookups, and between them the calls that write the tables they
\* read; an update_game call takes its steps as in RepoSpec
LookupNext ==
    \/ \E id \in {1, 2}, fails \in BOOLEAN :
            \/ GetGameById(id, fails)
            \/ GetPlayer(id, fails)
            \/ GetCardById(id, fails)
            \/ GetClaimById(id, fails)
    \/ \E id \in {1}, fails \in BOOLEAN :
            \/ AddGame(id, fails)
            \/ DeleteGame(id, fails)
            \/ AddPlayer(PlayerOf(id, "old"), fails)
            \/ DeletePlayer(id, fails)
            \/ CreateCard(id, fails)
            \/ DeleteCard(id, fails)
            \/ DeleteClaim(id, fails)
            \/ UpdatePlayer([id |-> id, score |-> None, assigned_cards |-> None,
                             name |-> Some("renamed"),
                             last_time_update_requested |-> None], None, fails)
    \/ \E card_type \in {None, Some("Queen")}, player_id \in {None, Some(2)},
          fails \in BOOLEAN :
            UpdateCard([id |-> 1, card_type |-> card_type,
                        player_id |-> player_id, claim_id |-> None], fails)
    \/ \E t \in 1..MaxCalls, fails \in BOOLEAN :
            \/ \E players \in {None, Some(<<DtoPlayer(2)>>)} :
                    UpdateGame(t, UpdateGameDTO(1, players, RoundOnly), fails)
            \/ FetchPlayers(t, fails)
            \/ RunStatement(t, fails)

LookupSpec == LookupInit /\ [][LookupNext]_vars

----------------------------------------------------------------------------
(* CloneSpec: Game::from_ref applied to bounded games: one player with a   *)
(* hand of up to MaxHand cards of any type, and no claim or one claim of    *)
(* one card of any type.                                                   *)

Games ==
    {[Game_new EXCEPT
        !.players = <<[Player_new(1) EXCEPT !.assigned_cards = hand]>>,
        !.claims = claims] :
        hand \in UNION {{[i \in 1..k |-> Card(i, f[i])] :
                            f \in [1..k -> CardTypes]} : k \in 0..MaxHand},
        claims \in {<<>>}
                   \cup {<<Claim_new(1, 1, <<Card(MaxHand + 1, t)>>).value>> :
                            t \in CardTypes}}

CloneInit ==
    /\ game \in Games
    /\ rounds = <<>>
    /\ chat = Chat_new
    /\ accepted = 0
    /\ db = EmptyDb
    /\ sse = NoStream
    /\ tasks = NoTasks
    /\ call = NoCall
    /\ ret = NoRet

FromRef ==
    /\ call' = [self |-> game, op |-> "Game::from_ref"]
    /\ ret' = Ok(Game_from_ref(game))
    /\ UNCHANGED <<tasks, game, rounds, chat, accepted, db, sse>>

CloneNext == FromRef

CloneSpec == CloneInit /\ [][CloneNext]_vars

----------------------------------------------------------------------------
(* SseSpec: the stream that sse_handler returns, polled by the server.    *)
(* sse.pc is the place of the stream in its loop, sse.events the number of *)
(* events it has yielded (counted up to MaxEvents), sse.gap the number of   *)
(* sleeps it has finished since its last event.                            *)

\* sse_handler: the stream as returned, at the top of its loop
sse_handler == [pc |-> "yield", events |-> 0, gap |-> 0]

SseInit ==
    /\ game = Game_new
    /\ rounds = <<>>
    /\ chat = Chat_new
    /\ accepted = 0
    /\ db = EmptyDb
    /\ sse = sse_handler
    /\ tasks = NoTasks
    /\ call = NoCall
    /\ ret = NoRet

\* yield Ok(Event::default().data(..)), and on to the sleep
YieldEvent_without_sleep ==
    /\ sse.pc = "yield"
    /\ sse' = [sse EXCEPT !.events = IF @ < MaxEvents THEN @ + 1 ELSE @,
                          !.gap = 0]
    /\ UNCHANGED <<tasks, game, rounds, chat, accepted, db, call, ret>>

YieldEvent ==
    /\ sse.pc = "yield"
    /\ sse' = [pc |-> "sleep",
               events |-> IF sse.events < MaxEvents THEN sse.events + 1
                          ELSE sse.events,
               gap |-> 0]
    /\ UNCHANGED <<tasks, game, rounds, chat, accepted, db, call, ret>>

\* tokio::time::sleep(..).await ends, and back to the top of the loop
Sleep ==
    /\ sse.pc = "sleep"
    /\ sse' = [sse EXCEPT !.pc = "yield", !.gap = @ + 1]
    /\ UNCHANGED <<tasks, game, rounds, chat, accepted, db, call, ret>>

SseNext == YieldEvent \/ Sleep

\* the runtime keeps polling the stream and its timer
SseSpec == SseInit /\ [][SseNext]_vars /\ WF_vars(SseNext)

----------------------------------------------------------------------------
(* BuilderSpec: the three update-query builders applied to the requests    *)
(* with every combination of present and absent optional fields.           *)

\* UpdateGameDTO: every optional field absent or present
GameUpdates ==
    {UpdateGameDTO(id, players, fields) :
        id \in {1, 2},
        players \in {None, Some(<<DtoPlayer(1)>>)},
        fields \in [chat : {None, Some(Chat_new)},
                    round_number : {None, Some(3)},
                    which_player_turn : {None, Some(1)},
                    state : {None, Some("Ended")},
                    card_to_play : {None, Some("Queen")},
                    claims : {None, Some(<<>>)}]}

\* UpdatePlayerDTO: every optional field absent or present
PlayerUpdates ==
    [id : 1..2,
     name : {None, Some("new")},
     score : {None, Some(7)},
     assigned_cards : {None, Some(<<>>)},
     last_time_update_requested : {None, Some("now")}]

\* UpdateCardDTO: every optional field absent or present, with each card
\* type
CardUpdates ==
    [id : 1..2,
     card_type : {None} \cup {Some(c) : c \in CardTypes},
     player_id : {None, Some(1)},
     claim_id : {None, Some(1)}]

BuildGameUpdate(game_data) ==
    /\ call' = [game_data |-> game_data,
                op |-> "GameRepository::get_update_query_string_and_bindings"]
    /\ ret' = get_update_query_string_and_bindings(game_data)
    /\ UNCHANGED <<tasks, db, sse, game, rounds, chat, accepted>>

BuildPlayerUpdate(player, last_time_updated) ==
    /\ call' = [player |-> player, last_time_updated |-> last_time_updated,
                op |-> "PlayerRepository::get_update_query_string_and_bindings"]
    /\ ret' = player_get_update_query_string_and_bindings(player,
                                                          last_time_updated)
    /\ UNCHANGED <<tasks, db, sse, game, rounds, chat, accepted>>

BuildCardUpdate(card_data) ==
    /\ call' = [card_data |-> card_data,
                op |-> "CardRepository::determine_query_and_bindings_to_update_card"]
    /\ ret' = determine_query_and_bindings_to_update_card(card_data)
    /\ UNCHANGED <<tasks, db, sse, game, rounds, chat, accepted>>

BuilderNext ==
    \/ \E game_data \in GameUpdates : BuildGameUpdate(game_data)
    \/ \E player \in PlayerUpdates, last_time_updated \in {None, Some("now")} :
            BuildPlayerUpdate(player, last_time_updated)
    \/ \E card_data \in CardUpdates : BuildCardUpdate(card_data)

BuilderSpec == Init /\ [][BuilderNext]_vars

----------------------------------------------------------------------------
(* Properties of Game::prep_for_new_round (Spec) *)

PrepCalled == call.op = "prep_for_new_round"
PrepOk == PrepCalled /\ ret.tag = "Ok"

\* C1: with at least one player prep_for_new_round returns Ok and adds
\* exactly 1 to round_number; a failed call leaves round_number alone; and
\* after n successful calls on a new game round_number is 1 + n.
C1_RoundNumberCounts ==
    /\ game.round_number = 1 + Len(rounds)
    /\ PrepCalled =>
          /\ Len(call.self.players) >= 1 =>
                /\ ret.tag = "Ok"
                /\ game.round_number = call.self.round_number + 1
          /\ ret.tag = "Err" => game.round_number = call.self.round_number

C1_Witness ==
    /\ PrepOk
    /\ Len(rounds) = 2
    /\ call.self.round_number = 2
    /\ game.round_number = 3

\* C2: after a successful prep_for_new_round the claims list is empty,
\* whatever it held before the call.
C2_ClaimsEmptied == PrepOk => game.claims = <<>>

C2_Witness ==
    /\ PrepOk
    /\ Len(call.self.claims) = 2
    /\ game.claims = <<>>

\* C3: after a successful prep_for_new_round the turn is with the first
\* player of the players list, whoever had it before.
C3_TurnToFirstPlayer ==
    PrepOk =>
        /\ game.players = call.self.players
        /\ game.which_player_turn = game.players[1].id

C3_Witness ==
    /\ PrepOk
    /\ Len(game.players) = 2
    /\ call.self.which_player_turn = game.players[2].id
    /\ game.which_player_turn = game.players[1].id

\* C4 as stated: in a game with at least two players a successful
\* prep_for_new_round gives the turn to another player than the successful
\* prep_for_new_round before it.
C4_TurnRotates ==
    (PrepOk /\ Len(game.players) >= 2 /\ Len(rounds) >= 2) =>
        rounds[Len(rounds)].turn # rounds[Len(rounds) - 1].turn

\* C4 as amended: two successive successful prep_for_new_round calls give
\* the turn to different players exactly when the first player of the
\* players list differs between the two calls.
C4_TurnFollowsFirstPlayer ==
    \A i \in 1..(Len(rounds) - 1) :
        (rounds[i + 1].turn # rounds[i].turn)
            <=> (rounds[i + 1].first # rounds[i].first)

C4_Witness ==
    /\ PrepOk
    /\ Len(game.players) >= 2
    /\ Len(call.self.players) >= 2
    /\ Len(rounds) >= 2
    /\ rounds[Len(rounds)].first = rounds[Len(rounds) - 1].first
    /\ rounds[Len(rounds)].turn = rounds[Len(rounds) - 1].turn

\* C5: the card_to_play a successful prep_for_new_round sets differs from
\* the one the successful prep_for_new_round before it set.
C5_CardChanges ==
    \A i \in 1..(Len(rounds) - 1) : rounds[i + 1].card # rounds[i].card

\* C6: every successful prep_for_new_round sets the same card_to_play,
\* whatever the state of the game and its round number.
C6_SameCardEveryRound ==
    /\ \A i, j \in 1..Len(rounds) : rounds[i].card = rounds[j].card
    /\ PrepOk => game.card_to_play = rounds[1].card

C6_Witness ==
    /\ PrepOk
    /\ Len(rounds) = 3
    /\ rounds[3].first # rounds[1].first
    /\ call.self.card_to_play # game.card_to_play
    /\ call.self.claims # <<>>

\* C7: with an empty players list prep_for_new_round returns
\* Err(ProcessError) and leaves every field of the game unchanged.
C7_NoPlayersNoChange ==
    (PrepCalled /\ Len(call.self.players) = 0) =>
        /\ ret.tag = "Err"
        /\ ret.error = "ProcessError"
        /\ game = call.self

C7_Witness ==
    /\ PrepCalled
    /\ Len(call.self.players) = 0
    /\ ret.tag = "Err"
    /\ call.self.claims # <<>>
    /\ call.self.round_number > 1
    /\ call.self.card_to_play = "Queen"

----------------------------------------------------------------------------
(* Properties of Claim::new (ClaimSpec) *)

\* C8: Claim::new returns Ok only when the cards list has at most
\* MAX_CARDS_PER_CLAIM elements, and BadClientRequest otherwise.
C8_AtMostFourCards ==
    call.op = "Claim::new" =>
        /\ ret.tag = "Ok" => Len(call.cards) <= MAX_CARDS_PER_CLAIM
        /\ Len(call.cards) > MAX_CARDS_PER_CLAIM =>
              (ret.tag = "Err" /\ ret.error = "BadClientRequest")

----------------------------------------------------------------------------
(* Properties of Chat (ChatSpec) *)

AddCalled == call.op = "add_chat_message"

\* C9: from Chat::new, after any add_chat_message and reset calls, the chat
\* holds at most MAX_CHAT_MESSAGE_LENGTH messages, by its list and by its
\* count.
C9_ChatBounded ==
    /\ Len(chat.messages) <= MAX_CHAT_MESSAGE_LENGTH
    /\ chat.number_of_messages <= MAX_CHAT_MESSAGE_LENGTH

C9_Witness ==
    /\ AddCalled
    /\ ret.tag = "Ok"
    /\ call.self.number_of_messages = MAX_CHAT_MESSAGE_LENGTH
    /\ Len(call.self.messages) = MAX_CHAT_MESSAGE_LENGTH
    /\ Len(chat.messages) = MAX_CHAT_MESSAGE_LENGTH
    /\ chat.number_of_messages = MAX_CHAT_MESSAGE_LENGTH

\* C10: on a chat of MAX_CHAT_MESSAGE_LENGTH messages add_chat_message with
\* a non-empty message returns Ok, drops the first message, keeps the others
\* in their order and puts the new one last; so the chat holds the messages
\* accepted most recently, in the order they arrived.
C10_OldestEvicted ==
    /\ (AddCalled /\ call.message.content # ""
            /\ call.self.number_of_messages = MAX_CHAT_MESSAGE_LENGTH) =>
          /\ ret.tag = "Ok"
          /\ Len(chat.messages) = MAX_CHAT_MESSAGE_LENGTH
          /\ \A i \in 1..(MAX_CHAT_MESSAGE_LENGTH - 1) :
                chat.messages[i] = call.self.messages[i + 1]
          /\ chat.messages[MAX_CHAT_MESSAGE_LENGTH] = call.message
    /\ \A i \in 1..Len(chat.messages) :
          chat.messages[i].id = accepted - Len(chat.messages) + i

C10_Witness ==
    /\ AddCalled
    /\ ret.tag = "Ok"
    /\ call.self.number_of_messages = MAX_CHAT_MESSAGE_LENGTH
    /\ call.self.messages[1].id = 2
    /\ chat.messages[1].id = 3
    /\ chat.messages[MAX_CHAT_MESSAGE_LENGTH].id = 52


\* C11: add_chat_message with an empty content returns
\* Err(InvalidMessageError) carrying that message and leaves the messages
\* and the count of the chat as they were, also on a full chat.
C11_EmptyMessageRejected ==
    (AddCalled /\ call.message.content = "") =>
        /\ ret.tag = "Err"
        /\ ret.error = "InvalidMessageError"
        /\ ret.origin_message = call.message
        /\ chat.messages = call.self.messages
        /\ chat.number_of_messages = call.self.number_of_messages

C11_Witness ==
    /\ AddCalled
    /\ call.message.content = ""
    /\ ret.tag = "Err"
    /\ call.self.number_of_messages = MAX_CHAT_MESSAGE_LENGTH
    /\ Len(chat.messages) = MAX_CHAT_MESSAGE_LENGTH
    /\ chat.messages[1].id = 2


----------------------------------------------------------------------------
(* Properties of the repositories (RepoSpec) *)

UpdateCalled == call.op = "update_game"

\* C12: a game never has more than MAX_PLAYERS players: whatever update_game
\* calls were made, at most MAX_PLAYERS players are stored.
C12_AtMostMaxPlayers == Len(db.players) <= MAX_PLAYERS

\* C13: update_game with the id of a stored game and None in every optional
\* field issues a well-formed UPDATE and returns Ok, when no database call
\* fails.
C13_OnlyIdNeeded ==
    (/\ UpdateCalled
     /\ \E r \in db.games : r.id = call.game_data.id
     /\ call.game_data = UpdateGameDTO(call.game_data.id, None, NoFields)
     /\ call.fault = 0) =>
        /\ WellFormedUpdate(call.query)
        /\ ret.tag = "Ok"


\* the new list of players of the request, and the ids in a list of players
NewPlayers == call.game_data.players[1]
IdsIn(players) == {players[i].id : i \in DOMAIN players}

\* update_game reached update_players_in_game (the UPDATE answered with a
\* Game) with a non-empty new list
SyncCalled ==
    /\ UpdateCalled
    /\ call.row # None
    /\ call.game_data.players # None
    /\ NewPlayers # <<>>

\* an update_game call asked for more than MAX_PLAYERS players, one of them
\* not stored, and at most MAX_PLAYERS are stored after it
C12_Witness ==
    /\ SyncCalled
    /\ call.fault = 0
    /\ Len(NewPlayers) > MAX_PLAYERS
    /\ \E k \in DOMAIN call.issued : call.issued[k].op = "add"
    /\ Len(call.fetched[1]) = MAX_PLAYERS
    /\ Len(db.players) = MAX_PLAYERS

\* C14: for every stored roster, the empty one included, and every
\* non-empty new list, when no database call fails update_players_in_game
\* returns Ok and the stored player ids end equal to the ids of the new list.
C14_RosterSynced ==
    (SyncCalled /\ call.fault = 0) =>
        /\ ret.tag = "Ok"
        /\ IdsIn(db.players) = IdsIn(NewPlayers)

\* C15: on success update_players_in_game returns the list of players the
\* request carried, and update_game returns a Game with that list as its
\* players.
C15_ReturnsPassedPlayers ==
    (UpdateCalled /\ ret.tag = "Ok") => ret.value.players = NewPlayers


\* C20: a player whose id is both in the roster that update_players_in_game
\* fetched and in the new list gets neither a delete nor an add from it, and
\* no step of the call changes the stored row of that player.
C20_UnchangedPlayersLeftAlone ==
    [][\A t \in 1..MaxCalls :
        tasks[t].pc = "statements" =>
            \A id \in IdsIn(tasks[t].current)
                        \cap IdsIn(tasks[t].game_data.players[1]) :
                /\ \A k \in DOMAIN tasks[t].ops :
                        tasks[t].ops[k].player.id # id
                /\ tasks'[t] # tasks[t] =>
                        {db'.players[i] : i \in {j \in DOMAIN db'.players :
                                                    db'.players[j].id = id}}
                        = {db.players[i] : i \in {j \in DOMAIN db.players :
                                                    db.players[j].id = id}}]_vars

\* a call has sent the delete of its first loop and has an add to send,
\* and a player it fetched is in its new list with other data and is
\* stored as fetched
C20_Witness ==
    \E t \in 1..MaxCalls :
        /\ tasks[t].pc = "statements"
        /\ tasks[t].next = 2
        /\ tasks[t].ops[1].op = "delete"
        /\ \E k \in DOMAIN tasks[t].ops : tasks[t].ops[k].op = "add"
        /\ \E i \in DOMAIN tasks[t].current,
              j \in DOMAIN tasks[t].game_data.players[1] :
                /\ tasks[t].current[i].id = tasks[t].game_data.players[1][j].id
                /\ tasks[t].current[i] # tasks[t].game_data.players[1][j]
                /\ \E m \in DOMAIN db.players :
                        db.players[m] = tasks[t].current[i]


----------------------------------------------------------------------------
(* Properties of the lookups by id (LookupSpec) *)

\* the rows of the table the lookup reads that have the id asked for
RowsAskedFor ==
    LET rows == CASE call.op = "get_game_by_id" -> call.db.games
                  [] call.op = "get_player" ->
                        {call.db.players[i] : i \in DOMAIN call.db.players}
                  [] call.op = "get_card_by_id" -> call.db.cards
                  [] call.op = "get_claim_by_id" -> call.db.claims
    IN  {row \in rows : row.id = call.id}

\* C19: in get_game_by_id, get_player, get_card_by_id and get_claim_by_id a
\* query that succeeds and finds no row gives an error with status 404, a
\* query that fails gives status 500, and Ok is returned only when the row
\* exists.
C19_LookupStatusCodes ==
    call.op \in {"get_game_by_id", "get_player", "get_card_by_id",
                 "get_claim_by_id"} =>
        /\ (~call.fails /\ RowsAskedFor = {}) =>
                ret = DatabaseQueryError(NOT_FOUND)
        /\ call.fails => ret = DatabaseQueryError(INTERNAL_SERVER_ERROR)
        /\ ret.tag = "Ok" => (~call.fails /\ RowsAskedFor # {})

C19_Witness ==
    /\ call.op = "get_claim_by_id"
    /\ ~call.fails
    /\ call.db.claims # {}
    /\ RowsAskedFor = {}
    /\ ret.tag = "Err"
    /\ ret.status_code = NOT_FOUND


----------------------------------------------------------------------------
(* Properties of the handlers (RepoSpec) *)

\* C17: the handler of PUT /game/update updates the game of the request
\* through the game repository: the games table is as the UPDATE of
\* GameRepository::update_game leaves it, and the handler answers with the
\* updated Game or, when the update failed, with an error status.
C17_HandlerUpdatesGame ==
    call.op = "PUT /game/update" =>
        LET built == get_update_query_string_and_bindings(call.game_data)
            updated == ExecUpdate(GameTableColumns(db.schema), db.games,
                                  built.query, built.bindings, FALSE)
        IN  /\ db.games = updated.games
            /\ ret.tag = "Ok" \/ ret.status_code >= BAD_REQUEST
            /\ ret.tag = "Ok" => ret.value.id = call.game_data.id


----------------------------------------------------------------------------
(* Properties of Game::from_ref (CloneSpec) *)

\* C16: Game::from_ref(g) equals g field by field, the card_type of every
\* card in the players' assigned_cards and in the claims' cards included.
C16_FromRefClonesAll ==
    call.op = "Game::from_ref" => ret.value = call.self


----------------------------------------------------------------------------
(* Properties of the SSE stream (SseSpec) *)

\* a step in which the stream yields an event
Emits ==
    /\ sse.pc = "yield"
    /\ sse'.events = (IF sse.events < MaxEvents THEN sse.events + 1
                      ELSE sse.events)
    /\ sse'.gap = 0

\* C18: the stream never ends: it yields its first event before any sleep,
\* then sleeps once before each further event, and yields infinitely many
\* events.
C18_HeartbeatForever ==
    /\ [](sse.events = 0 => (sse.pc = "yield" /\ sse.gap = 0))
    /\ [][sse.pc = "yield" =>
            (Emits /\ sse.gap = (IF sse.events = 0 THEN 0 ELSE 1))]_vars
    /\ [][sse.pc = "sleep" => (sse'.pc = "yield" /\ sse'.events = sse.events)]_vars
    /\ []<>(sse.pc = "yield")
    /\ []<>(sse.pc = "sleep")

C18_Witness ==
    /\ sse.pc = "yield"
    /\ sse.events >= 2
    /\ sse.gap = 1


----------------------------------------------------------------------------
(* Properties of the update-query builders (BuilderSpec) *)

GameBuilderCalled ==
    call.op = "GameRepository::get_update_query_string_and_bindings"
PlayerBuilderCalled ==
    call.op = "PlayerRepository::get_update_query_string_and_bindings"
CardBuilderCalled ==
    call.op = "CardRepository::determine_query_and_bindings_to_update_card"

\* the request the builder was given, and the table it updates
BuilderRequest ==
    CASE GameBuilderCalled -> call.game_data
      [] PlayerBuilderCalled -> call.player
      [] CardBuilderCalled -> call.card_data

BuilderTable ==
    CASE GameBuilderCalled -> "games"
      [] PlayerBuilderCalled -> "players"
      [] CardBuilderCalled -> "cards"

\* the fields of the request that are declared as Option and are present
PresentFields ==
    LET OptionalFields ==
            CASE GameBuilderCalled ->
                    {"players", "which_player_turn", "state", "round_number",
                     "chat", "card_to_play", "claims"}
              [] PlayerBuilderCalled ->
                    {"name", "score", "assigned_cards",
                     "last_time_update_requested"}
              [] CardBuilderCalled -> {"card_type", "player_id", "claim_id"}
    IN  {f \in OptionalFields : BuilderRequest[f] # None}

\* the query and bindings returned (inside Ok for the card builder)
Built == IF CardBuilderCalled THEN ret.value ELSE ret

\* JsValue::from of the value of a field: an enum is bound as its index
JsValue(field, v) ==
    CASE field = "state" -> GameState_index(v)
      [] field \in {"card_to_play", "card_type"} -> CardType_index(v)
      [] OTHER -> v

\* C21: when at least one optional field of the request is present, each
\* of the game, player and card builders returns an UPDATE of its table
\* whose SET clause names exactly the present fields, once each, with one
\* placeholder per binding, the bindings being the values of the named
\* fields in the order of the query, followed by the id of the entity for
\* the WHERE clause.
C21_OnlyProvidedFields ==
    ((GameBuilderCalled \/ PlayerBuilderCalled \/ CardBuilderCalled)
        /\ PresentFields # {}) =>
        /\ CardBuilderCalled => ret.tag = "Ok"
        /\ ParseUpdateOf(BuilderTable, Built.query) # {}
        /\ LET cols == CHOOSE c \in ParseUpdateOf(BuilderTable, Built.query) : TRUE
               bindings == Built.bindings
           IN  /\ {cols[i] : i \in DOMAIN cols} = PresentFields
               /\ Len(cols) = Cardinality(PresentFields)
               /\ Len(bindings) = Len(cols) + 1
               /\ \A i \in DOMAIN cols :
                      bindings[i] = JsValue(cols[i], BuilderRequest[cols[i]][1])
               /\ bindings[Len(bindings)] = BuilderRequest.id

====
